---- MODULE Spec2Model ----
(***************************************************************************)
(* Portfolio optimisation as a knapsack MILP (src/src/optimizer.py) and   *)
(* the processing of the quotation tape that feeds it                      *)
(* (src/src/data_processor.py, src/main.py).                               *)
(*                                                                         *)
(* Specifications: Spec is one run of executar_otimizacao_completa,        *)
(* SpecRepetir two runs on the same input, SpecDados the data processor.   *)
(*                                                                         *)
(* State: one PortfolioOptimizer instance (metricas, config, model,        *)
(* x_vars/y_vars, solucao), the position of executar_otimizacao_completa   *)
(* on it, the status and assignment left by the solver, and the saved      *)
(* portfolio file.                                                         *)
(*                                                                         *)
(* Numbers: prices and the budget are integers; returns, volatilities,     *)
(* risco_maximo and retorno_minimo share one integer scale; the fractions  *)
(* alpha_setor_min, alpha_setor_max and max_ativo_pct are in percent       *)
(* (0.3 is 30), so `a <= alpha * B` is written `100 * a <= alpha * B`.     *)
(* A ratio (retorno_total, risco_total, sharpe_carteira) is kept as a      *)
(* record [num, den] with den > 0.  Solver values are exact integers: the  *)
(* 1e-9 tolerances of the solver are not modelled.                         *)
(***************************************************************************)
EXTENDS Integers, Sequences, FiniteSets, TLC

VARIABLES metricas, config, pc, model, status, atrib, solucao,
          extraiu, ret_otimizar, ret_executar, carteira_csv, erro,
          params, anterior, passos,
          arquivo_cotahist, arquivo_setores, min_dias, min_volume,
          df_completo, df_acoes, df_retornos, metricas_cp, metricas_csv,
          etapa, excecao, ret_processar,
          objetos, chamadas

\* The PortfolioOptimizer, its solver and the caller of its runs.
otimizador == <<metricas, config, pc, model, status, atrib, solucao,
                extraiu, ret_otimizar, ret_executar, carteira_csv, erro,
                params, anterior, passos>>

\* The CotacaoProcessor, the files it reads and writes, and the position of
\* main.processar_dados on it.
processador == <<arquivo_cotahist, arquivo_setores, min_dias, min_volume,
                 df_completo, df_acoes, df_retornos, metricas_cp, metricas_csv,
                 etapa, excecao, ret_processar>>

\* The module config: the dictionaries it holds and has returned, by
\* reference, and the calls of obter_config made so far.
configurador == <<objetos, chamadas>>

vars == <<otimizador, processador, configurador>>

(***************************************************************************)
(* Bounds of the input space.                                              *)
(***************************************************************************)
MaxPreco == 2
MaxRetorno == 3
MaxRisco == 3
Orcamento == 4
RiscoMaximo == 2
RetornoMinimo == 1
NumAtivosMax == 2
Folga == 1

(***************************************************************************)
(* Defaults of the optional configuration keys (config.get(key, default)). *)
(***************************************************************************)
DefaultAlphaMin == 0
DefaultAlphaMax == 30
DefaultNumSetoresMin == 1
DefaultMaxAtivoPct == 100

(***************************************************************************)
(* Solver limits: the constants of config.py that obter_config puts in the *)
(* configuration, and the defaults of the parameters of otimizar.  Seconds *)
(* and a relative gap (0.0 is 0).                                          *)
(***************************************************************************)
TIME_LIMIT == 600
MIP_GAP == 0
TOP_N_ATIVOS == 20
DefaultTimeLimit == 300
DefaultMipGap == 0

(***************************************************************************)
(* Python values.                                                          *)
(***************************************************************************)
None == [presente |-> FALSE]

RECURSIVE Soma(_, _)
Soma(f, S) ==
    IF S = {} THEN 0
    ELSE LET t == CHOOSE t \in S : TRUE IN f[t] + Soma(f, S \ {t})

Range(s) == {s[k] : k \in 1..Len(s)}

ConfigGet(c, chave, padrao) == IF chave \in DOMAIN c THEN c[chave] ELSE padrao

(***************************************************************************)
(* The asset universe: metricas.index, in the order of the data frame.     *)
(***************************************************************************)
Ordem == <<"A", "B", "C", "D", "E", "F">>

Indice(met) == SelectSeq(Ordem, LAMBDA t : t \in DOMAIN met)

Setores(met) == {met[t].setor : t \in DOMAIN met}

AtivosSetor(met, s) == {t \in DOMAIN met : met[t].setor = s}

(***************************************************************************)
(* construir_modelo: the MILP.  A constraint is the record of its name and *)
(* of the asset or sector it is about ("" for a global constraint); its    *)
(* coefficients are read from metricas and config, which do not change     *)
(* after construction.                                                     *)
(***************************************************************************)
R0(nome) == [nome |-> nome, alvo |-> ""]

R1(nome, alvo) == [nome |-> nome, alvo |-> alvo]

DiversificacaoSetor(c) == ConfigGet(c, "diversificacao_setor", FALSE)

AlphaMin(c) == ConfigGet(c, "alpha_setor_min", DefaultAlphaMin)

AlphaMax(c) == ConfigGet(c, "alpha_setor_max", DefaultAlphaMax)

NumSetoresMin(c) == ConfigGet(c, "num_setores_min", DefaultNumSetoresMin)

MaxAtivoPct(c) == ConfigGet(c, "max_ativo_pct", DefaultMaxAtivoPct)

ExcluirNegativosSeExplicito(c) == ConfigGet(c, "excluir_retorno_negativo", FALSE)

ExcluirNegativos(c) == ConfigGet(c, "excluir_retorno_negativo", TRUE)

RestricoesBaseSemMaxAtivos(met, c) ==
    {R0("orcamento"), R0("risco"), R0("retorno_min"), R0("min_ativos")}

RestricoesBase(met, c) ==
    {R0("orcamento"), R0("risco"), R0("retorno_min"),
     R0("min_ativos"), R0("max_ativos")}

RestricoesSetorSemMax(met, c) ==
    IF DiversificacaoSetor(c)
    THEN {R1("setor_ativa", s) : s \in Setores(met)}
         \cup (IF AlphaMin(c) > 0
               THEN {R1("setor_min", s) : s \in Setores(met)}
               ELSE {})
         \cup {R0("num_setores_min")}
    ELSE {}

RestricoesSetor(met, c) ==
    IF DiversificacaoSetor(c)
    THEN {R1("setor_max", s) : s \in Setores(met)}
         \cup {R1("setor_ativa", s) : s \in Setores(met)}
         \cup (IF AlphaMin(c) > 0
               THEN {R1("setor_min", s) : s \in Setores(met)}
               ELSE {})
         \cup {R0("num_setores_min")}
    ELSE {}

RestricoesMaxAtivoNunca(met, c) == {}

RestricoesMaxAtivo(met, c) ==
    IF MaxAtivoPct(c) < 100
    THEN {R1("max_ativo", i) : i \in DOMAIN met}
    ELSE {}

Negativos(met) == {i \in DOMAIN met : met[i].retorno_esperado < 0}

RestricoesNegativosSoExplicito(met, c) ==
    IF ConfigGet(c, "excluir_retorno_negativo", FALSE)
    THEN {R1("no_negative", i) : i \in Negativos(met)}
    ELSE {}

RestricoesNegativos(met, c) ==
    IF ExcluirNegativos(c)
    THEN {R1("no_negative", i) : i \in Negativos(met)}
    ELSE {}

RestricoesConsistenciaSemMin(met, c) ==
    {R1("consistencia_max", i) : i \in DOMAIN met}

RestricoesConsistencia(met, c) ==
    {R1("consistencia_max", i) : i \in DOMAIN met}
    \cup {R1("consistencia_min", i) : i \in DOMAIN met}

MinPrecoPeloMaior(met) ==
    CHOOSE p \in {met[t].preco_atual : t \in DOMAIN met} :
        \A t \in DOMAIN met : p >= met[t].preco_atual

MinPreco(met) ==
    CHOOSE p \in {met[t].preco_atual : t \in DOMAIN met} :
        \A t \in DOMAIN met : p <= met[t].preco_atual

MaxLotes(met, c) ==
    IF DOMAIN met # {} THEN c.orcamento \div MinPreco(met) ELSE 1000

VariaveisZ(met, c) == IF DiversificacaoSetor(c) THEN Setores(met) ELSE {}

Modelo(met, c) ==
    [presente |-> TRUE,
     I |-> Indice(met),
     setores |-> VariaveisZ(met, c),
     max_lotes |-> MaxLotes(met, c),
     restricoes |-> RestricoesBase(met, c) \cup RestricoesSetor(met, c)
                    \cup RestricoesMaxAtivo(met, c)
                    \cup RestricoesNegativos(met, c)
                    \cup RestricoesConsistencia(met, c)]

(***************************************************************************)
(* The linear expressions of the model, for an assignment a = [x, y, z].   *)
(***************************************************************************)
Gasto(met, y, S) == Soma([t \in S |-> met[t].preco_atual * y[t]], S)

RetornoPonderado(met, y, S) ==
    Soma([t \in S |-> met[t].retorno_esperado * met[t].preco_atual * y[t]], S)

RiscoPonderado(met, y, S) ==
    Soma([t \in S |-> met[t].desvio_padrao * met[t].preco_atual * y[t]], S)

Objetivo(met, a) == RetornoPonderado(met, a.y, DOMAIN met)

RestricaoRiscoSemPreco(met, c, y) ==
    Soma([t \in DOMAIN met |-> met[t].desvio_padrao * y[t]], DOMAIN met)
        - c.risco_maximo * Gasto(met, y, DOMAIN met) <= 0

RestricaoRisco(met, c, y) ==
    RiscoPonderado(met, y, DOMAIN met)
        - c.risco_maximo * Gasto(met, y, DOMAIN met) <= 0

RestricaoRetornoMin(met, c, y) ==
    RetornoPonderado(met, y, DOMAIN met)
        - c.retorno_minimo * Gasto(met, y, DOMAIN met) >= 0

Vale(r, a, met, c, m) ==
    LET T == DOMAIN met
        B == c.orcamento
        i == r.alvo
    IN CASE r.nome = "orcamento" -> Gasto(met, a.y, T) <= B
         [] r.nome = "risco" -> RestricaoRisco(met, c, a.y)
         [] r.nome = "retorno_min" -> RestricaoRetornoMin(met, c, a.y)
         [] r.nome = "min_ativos" -> Soma(a.x, T) >= c.num_ativos_min
         [] r.nome = "max_ativos" -> Soma(a.x, T) <= c.num_ativos_max
         [] r.nome = "setor_max" ->
              100 * Gasto(met, a.y, AtivosSetor(met, i)) <= AlphaMax(c) * B
         [] r.nome = "setor_ativa" ->
              Gasto(met, a.y, AtivosSetor(met, i)) <= B * a.z[i]
         [] r.nome = "setor_min" ->
              100 * Gasto(met, a.y, AtivosSetor(met, i)) >= AlphaMin(c) * B * a.z[i]
         [] r.nome = "num_setores_min" ->
              Soma(a.z, m.setores) >= NumSetoresMin(c)
         [] r.nome = "max_ativo" ->
              100 * met[i].preco_atual * a.y[i] <= MaxAtivoPct(c) * B
         [] r.nome = "no_negative" -> a.y[i] = 0
         [] r.nome = "consistencia_max" -> a.y[i] <= m.max_lotes * a.x[i]
         [] r.nome = "consistencia_min" -> a.y[i] >= 1 * a.x[i]

(***************************************************************************)
(* The solver (model.optimize()).  x is binary, z is binary, y is an       *)
(* integer >= 0 with no upper bound of its own: the search looks at        *)
(* quantities up to max_lotes + Folga.  The set of feasible assignments is *)
(* computed variable family by variable family: first the constraints on   *)
(* one y_i, then those on y alone, then those that tie x or z to y.        *)
(***************************************************************************)
Familia(r) ==
    CASE r.nome \in {"max_ativo", "no_negative"} -> "y1"
      [] r.nome \in {"orcamento", "risco", "retorno_min", "setor_max"} -> "y"
      [] r.nome \in {"min_ativos", "max_ativos",
                     "consistencia_max", "consistencia_min"} -> "x"
      [] r.nome \in {"setor_ativa", "setor_min", "num_setores_min"} -> "z"

DaFamilia(m, f) == {r \in m.restricoes : Familia(r) = f}

Quantidades(m, met, c, i) ==
    {q \in 0..(m.max_lotes + Folga) :
        \A r \in DaFamilia(m, "y1") :
            r.alvo = i => Vale(r, [y |-> (i :> q)], met, c, m)}

RECURSIVE Produto(_, _, _, _)
Produto(m, met, c, k) ==
    IF k = 0 THEN {<<>>}
    ELSE {f @@ (m.I[k] :> q) :
            f \in Produto(m, met, c, k - 1), q \in Quantidades(m, met, c, m.I[k])}

ViaveisY(m, met, c) ==
    {y \in Produto(m, met, c, Len(m.I)) :
        \A r \in DaFamilia(m, "y") : Vale(r, [y |-> y], met, c, m)}

ViaveisX(m, met, c, y) ==
    {x \in [Range(m.I) -> {0, 1}] :
        \A r \in DaFamilia(m, "x") : Vale(r, [x |-> x, y |-> y], met, c, m)}

ViaveisZ(m, met, c, y) ==
    {z \in [m.setores -> {0, 1}] :
        \A r \in DaFamilia(m, "z") : Vale(r, [y |-> y, z |-> z], met, c, m)}

Viaveis(m, met, c) ==
    UNION {{[presente |-> TRUE, x |-> x, y |-> y, z |-> z] :
                x \in ViaveisX(m, met, c, y), z \in ViaveisZ(m, met, c, y)} :
           y \in ViaveisY(m, met, c)}

MinDe(S) == CHOOSE v \in S : \A w \in S : v <= w

MaxDe(S) == CHOOSE v \in S : \A w \in S : w <= v

SemSolucao == [presente |-> FALSE]

(***************************************************************************)
(* extrair_solucao.  The .X of a variable of a model that holds no         *)
(* solution cannot be read (AttributeError); pd.DataFrame of an empty list *)
(* has no columns, so reading its 'investimento' column is a KeyError.     *)
(* The columns nome and sharpe_ratio of a line item and tempo_exec are     *)
(* copied through by the code and are left out; gap is 0 or 1 (positive).  *)
(***************************************************************************)
Zero == [num |-> 0, den |-> 1]

AtivosSelecionadosInvertido(m, a) == SelectSeq(m.I, LAMBDA i : 2 * a.x[i] < 1)

AtivosSelecionados(m, a) == SelectSeq(m.I, LAMBDA i : 2 * a.x[i] > 1)

ItemSemQuantidade(met, a, t) ==
    [ticker |-> t,
     setor |-> met[t].setor,
     preco |-> met[t].preco_atual,
     quantidade |-> a.y[t],
     investimento |-> met[t].preco_atual,
     retorno_esperado |-> met[t].retorno_esperado,
     desvio_padrao |-> met[t].desvio_padrao]

Item(met, a, t) ==
    [ticker |-> t,
     setor |-> met[t].setor,
     preco |-> met[t].preco_atual,
     quantidade |-> a.y[t],
     investimento |-> a.y[t] * met[t].preco_atual,
     retorno_esperado |-> met[t].retorno_esperado,
     desvio_padrao |-> met[t].desvio_padrao]

Carteira(met, m, a) ==
    LET sel == AtivosSelecionados(m, a)
    IN [k \in 1..Len(sel) |-> Item(met, a, sel[k])]

Colunas(df) == IF df = <<>> THEN {} ELSE DOMAIN df[1]

SomaColuna(df) == Soma([k \in 1..Len(df) |-> df[k].investimento], 1..Len(df))

MIPGap(st) == IF st = "OPTIMAL" THEN 0 ELSE 1

Sharpe(retorno, risco) ==
    IF risco.num > 0
    THEN [num |-> retorno.num * risco.den, den |-> retorno.den * risco.num]
    ELSE Zero

ExtrairSolucao(met, m, a, st) ==
    IF ~a.presente THEN [erro |-> "AttributeError", solucao |-> None]
    ELSE LET df == Carteira(met, m, a)
             sel == Range(AtivosSelecionados(m, a))
         IN IF "investimento" \notin Colunas(df)
            THEN [erro |-> "KeyError", solucao |-> None]
            ELSE LET total == SomaColuna(df)
                     retorno == IF total > 0
                                THEN [num |-> RetornoPonderado(met, a.y, sel),
                                      den |-> total]
                                ELSE Zero
                     risco == IF total > 0
                              THEN [num |-> RiscoPonderado(met, a.y, sel),
                                    den |-> total]
                              ELSE Zero
                 IN [erro |-> "",
                     solucao |-> [presente |-> TRUE,
                                  carteira |-> df,
                                  num_ativos |-> Cardinality(sel),
                                  retorno_total |-> retorno,
                                  risco_total |-> risco,
                                  sharpe_carteira |-> Sharpe(retorno, risco),
                                  investimento_total |-> total,
                                  funcao_objetivo |-> Objetivo(met, a),
                                  gap |-> MIPGap(st)]]

(***************************************************************************)
(* Inputs: the asset universes and the scenario configurations.            *)
(***************************************************************************)
Tickers == {"A", "B", "C"}

SetorDe(t) == IF t = "C" THEN "S2" ELSE "S1"

Precos == {1, MaxPreco}

Perfis ==
    {[retorno_esperado |-> -1, desvio_padrao |-> 1],
     [retorno_esperado |-> 1, desvio_padrao |-> MaxRisco],
     [retorno_esperado |-> MaxRetorno, desvio_padrao |-> 1]}

Universos ==
    {[t \in Tickers |-> [preco_atual |-> pr[t],
                         retorno_esperado |-> pf[t].retorno_esperado,
                         desvio_padrao |-> pf[t].desvio_padrao,
                         setor |-> SetorDe(t)]] :
        pr \in [Tickers -> Precos], pf \in [Tickers -> Perfis]}

OpcoesSetor ==
    {<<>>, [diversificacao_setor |-> TRUE]}
    \cup {[diversificacao_setor |-> TRUE, alpha_setor_min |-> am,
           alpha_setor_max |-> 50, num_setores_min |-> 2] : am \in {0, 50}}

OpcoesMaxAtivo == {<<>>, [max_ativo_pct |-> 50]}

OpcoesNegativos ==
    {<<>>, [excluir_retorno_negativo |-> TRUE], [excluir_retorno_negativo |-> FALSE]}

\* obter_config, lines 72-77: the keys config.update writes over the preset.
ConfigUpdate(c) == [time_limit |-> TIME_LIMIT, mip_gap |-> MIP_GAP] @@ c

Configs ==
    {ConfigUpdate([orcamento |-> Orcamento, risco_maximo |-> RiscoMaximo,
                   retorno_minimo |-> RetornoMinimo, num_ativos_min |-> lmin,
                   num_ativos_max |-> NumAtivosMax] @@ os @@ oa @@ on) :
        lmin \in {0, 1}, os \in OpcoesSetor, oa \in OpcoesMaxAtivo,
        on \in OpcoesNegativos}

(***************************************************************************)
(* The concrete scenario of the specification: A, B and C, returns and     *)
(* risks in percent.                                                       *)
(***************************************************************************)
MetricasCenario ==
    [t \in Tickers |->
        [preco_atual |-> CASE t = "A" -> 100 [] t = "B" -> 50 [] t = "C" -> 200,
         retorno_esperado |-> CASE t = "A" -> 20 [] t = "B" -> 15 [] t = "C" -> -5,
         desvio_padrao |-> CASE t = "A" -> 10 [] t = "B" -> 20 [] t = "C" -> 5,
         setor |-> SetorDe(t)]]

ConfigCenario ==
    ConfigUpdate([orcamento |-> 10000, risco_maximo |-> 25, retorno_minimo |-> 10,
                  num_ativos_min |-> 1, num_ativos_max |-> 2,
                  excluir_retorno_negativo |-> TRUE])

(***************************************************************************)
(* The scenario presets of config.py, fractions in percent and money in    *)
(* thousands (orcamento 100_000.0 is 100).  The module holds them as the   *)
(* first three objects; obter_config adds the dictionaries it returns.     *)
(***************************************************************************)
CENARIO_CONSERVADOR ==
    [orcamento |-> 100, risco_maximo |-> 25, retorno_minimo |-> 8,
     num_ativos_min |-> 10, num_ativos_max |-> 20,
     diversificacao_setor |-> TRUE, alpha_setor_min |-> 0,
     alpha_setor_max |-> 25, num_setores_min |-> 4, max_ativo_pct |-> 20,
     excluir_retorno_negativo |-> TRUE]

CENARIO_MODERADO ==
    [orcamento |-> 100, risco_maximo |-> 35, retorno_minimo |-> 12,
     num_ativos_min |-> 5, num_ativos_max |-> 15,
     diversificacao_setor |-> TRUE, alpha_setor_min |-> 0,
     alpha_setor_max |-> 35, num_setores_min |-> 3, max_ativo_pct |-> 40]

CENARIO_AGRESSIVO ==
    [orcamento |-> 100, risco_maximo |-> 50, retorno_minimo |-> 18,
     num_ativos_min |-> 3, num_ativos_max |-> 10,
     diversificacao_setor |-> TRUE, alpha_setor_min |-> 0,
     alpha_setor_max |-> 100, num_setores_min |-> 2, max_ativo_pct |-> 60]

ModuloConfig == <<CENARIO_CONSERVADOR, CENARIO_MODERADO, CENARIO_AGRESSIVO>>

ConfigOcioso ==
    /\ objetos = ModuloConfig
    /\ chamadas = <<>>

(***************************************************************************)
(* The state machine: __init__, then executar_otimizacao_completa.  No     *)
(* CotacaoProcessor exists while the optimizer is studied on its own.      *)
(***************************************************************************)
ProcessadorOcioso ==
    /\ arquivo_cotahist = None
    /\ arquivo_setores = None
    /\ min_dias = 0
    /\ min_volume = 0
    /\ df_completo = None
    /\ df_acoes = None
    /\ df_retornos = None
    /\ metricas_cp = None
    /\ metricas_csv = None
    /\ etapa = "ocioso"
    /\ excecao = ""
    /\ ret_processar = None

Init ==
    /\ \/ metricas \in Universos /\ config \in Configs
       \/ metricas = MetricasCenario /\ config = ConfigCenario
    /\ pc = "novo"
    /\ model = None
    /\ status = "NENHUM"
    /\ atrib = SemSolucao
    /\ solucao = None
    /\ extraiu = FALSE
    /\ ret_otimizar = None
    /\ ret_executar = None
    /\ carteira_csv = None
    /\ erro = ""
    /\ params = None
    /\ anterior = None
    /\ passos = <<>>
    /\ ProcessadorOcioso
    /\ ConfigOcioso

\* construir_modelo: self.model is a new gp.Model, with no solve status, no
\* values and the parameters of a new model.
ConstruirModelo ==
    /\ pc = "novo"
    /\ model' = Modelo(metricas, config)
    /\ atrib' = SemSolucao
    /\ status' = "NENHUM"
    /\ params' = None
    /\ pc' = "construido"
    /\ passos' = Append(passos, "construido")
    /\ UNCHANGED <<metricas, config, solucao, extraiu,
                   ret_otimizar, ret_executar, carteira_csv, erro, anterior>>
    /\ UNCHANGED <<processador, configurador>>

\* otimizar, lines 213-230, once optimize() has left status st and values a.
RetornaNoneSoInviavel(st) == st = "INFEASIBLE"

RetornaNone(st) == st \notin {"OPTIMAL", "TIME_LIMIT"}

Despachar(st, a) ==
    /\ status' = st
    /\ atrib' = a
    /\ IF RetornaNone(st)
       THEN /\ pc' = "otimizado"
            /\ ret_otimizar' = None
            /\ passos' = Append(passos, "resolvido")
            /\ UNCHANGED <<solucao, extraiu, erro>>
       ELSE LET r == ExtrairSolucao(metricas, model, a, st)
            IN /\ extraiu' = TRUE
               /\ IF r.erro # ""
                  THEN /\ pc' = "erro"
                       /\ erro' = r.erro
                       /\ passos' = Append(passos, "resolvido")
                       /\ UNCHANGED <<solucao, ret_otimizar>>
                  ELSE /\ pc' = "otimizado"
                       /\ solucao' = r.solucao
                       /\ ret_otimizar' = r.solucao
                       /\ passos' = passos \o <<"resolvido", "extraido">>
                       /\ UNCHANGED erro
    /\ UNCHANGED <<metricas, config, model, ret_executar, carteira_csv, anterior>>
    /\ UNCHANGED <<processador, configurador>>

\* model.optimize(): the statuses and values the solver may leave.
OptimizeSemProva(m, met, c) ==
    LET V == Viaveis(m, met, c)
    IN {<<"OPTIMAL", a>> : a \in V}
       \cup {<<"TIME_LIMIT", a>> : a \in V \cup {SemSolucao}}
       \cup {<<"OTHER", a>> : a \in V \cup {SemSolucao}}
       \cup (IF V = {} THEN {<<"INFEASIBLE", SemSolucao>>} ELSE {})

Optimize(m, met, c) ==
    LET V == Viaveis(m, met, c)
        melhor == MaxDe({Objetivo(met, a) : a \in V})
    IN {<<"OPTIMAL", a>> : a \in {v \in V : Objetivo(met, v) = melhor}}
       \cup {<<"TIME_LIMIT", a>> : a \in V \cup {SemSolucao}}
       \cup {<<"OTHER", a>> : a \in V \cup {SemSolucao}}
       \cup (IF V = {} THEN {<<"INFEASIBLE", SemSolucao>>} ELSE {})

\* otimizar(time_limit, mip_gap), lines 187-230.
OtimizarCom(time_limit, mip_gap) ==
    /\ pc = "construido"
    /\ params' = [presente |-> TRUE, TimeLimit |-> time_limit, MIPGap |-> mip_gap]
    /\ \E r \in Optimize(model, metricas, config) : Despachar(r[1], r[2])

\* executar_otimizacao_completa, line 317: self.otimizar().
Otimizar == OtimizarCom(DefaultTimeLimit, DefaultMipGap)

\* executar_otimizacao_completa, lines 318-321.
SalvarERetornar ==
    /\ pc = "otimizado"
    /\ carteira_csv' = IF solucao.presente THEN solucao.carteira ELSE carteira_csv
    /\ ret_executar' = solucao
    /\ pc' = "fim"
    /\ passos' = IF solucao.presente THEN Append(passos, "salvo") ELSE passos
    /\ UNCHANGED <<metricas, config, model, status, atrib, solucao, extraiu,
                   ret_otimizar, erro, params, anterior>>
    /\ UNCHANGED <<processador, configurador>>

Next ==
    \/ ConstruirModelo
    \/ Otimizar
    \/ SalvarERetornar

Spec == Init /\ [][Next]_vars

(***************************************************************************)
(* Two runs on the same input: main.otimizar_carteira builds a new         *)
(* PortfolioOptimizer on each call, from the same metrics file and the     *)
(* same scenario.  anterior is what the first call returned.               *)
(***************************************************************************)
ConfigsRepetir ==
    {c \in Configs : /\ c.num_ativos_min = 1
                     /\ "diversificacao_setor" \notin DOMAIN c
                     /\ "excluir_retorno_negativo" \notin DOMAIN c}

InitRepetir ==
    /\ Init
    /\ metricas \in Universos
    /\ config \in ConfigsRepetir

NovaExecucao ==
    /\ pc = "fim"
    /\ ~anterior.presente
    /\ anterior' = [presente |-> TRUE, solucao |-> ret_executar]
    /\ pc' = "novo"
    /\ model' = None
    /\ status' = "NENHUM"
    /\ atrib' = SemSolucao
    /\ solucao' = None
    /\ extraiu' = FALSE
    /\ ret_otimizar' = None
    /\ ret_executar' = None
    /\ params' = None
    /\ passos' = <<>>
    /\ UNCHANGED <<metricas, config, carteira_csv, erro>>
    /\ UNCHANGED <<processador, configurador>>

NextRepetir ==
    \/ ConstruirModelo
    \/ Otimizar
    \/ SalvarERetornar
    \/ NovaExecucao

SpecRepetir == InitRepetir /\ [][NextRepetir]_vars

(***************************************************************************)
(* Two calls of executar_otimizacao_completa on one PortfolioOptimizer:    *)
(* the fields of the instance (model, x_vars, y_vars, solucao) are what    *)
(* the first call left; what the calls returned is local to each call.     *)
(***************************************************************************)
Reexecutar ==
    /\ pc = "fim"
    /\ ~anterior.presente
    /\ anterior' = [presente |-> TRUE, solucao |-> ret_executar]
    /\ pc' = "novo"
    /\ extraiu' = FALSE
    /\ ret_otimizar' = None
    /\ ret_executar' = None
    /\ passos' = <<>>
    /\ UNCHANGED <<metricas, config, model, status, atrib, solucao,
                   carteira_csv, erro, params>>
    /\ UNCHANGED <<processador, configurador>>

NextReuso ==
    \/ ConstruirModelo
    \/ Otimizar
    \/ SalvarERetornar
    \/ Reexecutar

SpecReuso == InitRepetir /\ [][NextReuso]_vars

(***************************************************************************)
(* The data processor (src/src/data_processor.py).                         *)
(*                                                                         *)
(* A str is the sequence of its characters.  A number read from the tape   *)
(* is the exact fraction [num, den]: pd.to_numeric gives den 1 and the     *)
(* division by 100 gives den 100.  NaN is the float that                   *)
(* errors='coerce' and the statistics of too few observations produce.     *)
(***************************************************************************)
NaN == [nan |-> TRUE]

Digitos == <<"0", "1", "2", "3", "4", "5", "6", "7", "8", "9">>

Maiusculas ==
    <<"A", "B", "C", "D", "E", "F", "G", "H", "I", "J", "K", "L", "M",
      "N", "O", "P", "Q", "R", "S", "T", "U", "V", "W", "X", "Y", "Z">>

Minusculas ==
    <<"a", "b", "c", "d", "e", "f", "g", "h", "i", "j", "k", "l", "m",
      "n", "o", "p", "q", "r", "s", "t", "u", "v", "w", "x", "y", "z">>

\* The characters in the order of their code points.
Alfabeto == <<"\n", " ">> \o Digitos \o Maiusculas \o Minusculas

Codigo(ch) == CHOOSE k \in 1..Len(Alfabeto) : Alfabeto[k] = ch

EhDigito(ch) == ch \in Range(Digitos)

ValorDigito(ch) == (CHOOSE d \in 1..Len(Digitos) : Digitos[d] = ch) - 1

RECURSIVE ParaInteiro(_)
ParaInteiro(s) ==
    IF s = <<>> THEN 0
    ELSE 10 * ParaInteiro(SubSeq(s, 1, Len(s) - 1)) + ValorDigito(s[Len(s)])

Branco(ch) == ch \in {" ", "\n"}

RECURSIVE LStrip(_)
LStrip(s) == IF s # <<>> /\ Branco(Head(s)) THEN LStrip(Tail(s)) ELSE s

RECURSIVE RStrip(_)
RStrip(s) ==
    IF s # <<>> /\ Branco(s[Len(s)]) THEN RStrip(SubSeq(s, 1, Len(s) - 1)) ELSE s

Strip(s) == RStrip(LStrip(s))

\* s[inicio:fim] for 0 <= inicio <= fim.
Fatia(s, inicio, fim) == SubSeq(s, inicio + 1, IF fim < Len(s) THEN fim ELSE Len(s))

StartsWith(s, prefixo) ==
    Len(s) >= Len(prefixo) /\ SubSeq(s, 1, Len(prefixo)) = prefixo

RECURSIVE TextoMenor(_, _)
TextoMenor(s, t) ==
    IF t = <<>> THEN FALSE
    ELSE IF s = <<>> THEN TRUE
    ELSE IF Head(s) # Head(t) THEN Codigo(Head(s)) < Codigo(Head(t))
    ELSE TextoMenor(Tail(s), Tail(t))

\* pd.to_numeric(errors='coerce') of a stripped field: a string of digits
\* is its integer and a string that is not a number is NaN.
ToNumeric(s) ==
    IF s # <<>> /\ \A k \in 1..Len(s) : EhDigito(s[k])
    THEN [num |-> ParaInteiro(s), den |-> 1]
    ELSE NaN

DivididoPor(v, k) == IF v = NaN THEN NaN ELSE [num |-> v.num, den |-> v.den * k]

\* pd.to_datetime(format='%Y%m%d'): the day as the integer yyyymmdd, or no
\* value where strptime raises ValueError.
DataValida(s) ==
    /\ Len(s) = 8
    /\ \A k \in 1..Len(s) : EhDigito(s[k])
    /\ ParaInteiro(SubSeq(s, 5, 6)) \in 1..12
    /\ ParaInteiro(SubSeq(s, 7, 8)) \in 1..31

ToDatetime(s) == ParaInteiro(s)

(***************************************************************************)
(* processar_cotahist.                                                     *)
(***************************************************************************)
colunas_spec ==
    <<<<"tipo_registro", 0, 2>>, <<"data_pregao", 2, 10>>, <<"cod_bdi", 10, 12>>,
      <<"ticker", 12, 24>>, <<"tipo_mercado", 24, 27>>, <<"nome_empresa", 27, 39>>,
      <<"especificacao", 39, 49>>, <<"prazo_dias", 49, 52>>, <<"moeda", 52, 56>>,
      <<"preco_abertura", 56, 69>>, <<"preco_maximo", 69, 82>>,
      <<"preco_minimo", 82, 95>>, <<"preco_medio", 95, 108>>,
      <<"preco_ultimo", 108, 121>>, <<"preco_melhor_compra", 121, 134>>,
      <<"preco_melhor_venda", 134, 147>>, <<"total_negocios", 147, 152>>,
      <<"quantidade_negociada", 152, 170>>, <<"volume_total", 170, 188>>,
      <<"preco_exercicio", 188, 201>>, <<"indicador_correcao", 201, 202>>,
      <<"data_vencimento", 202, 210>>, <<"fator_cotacao", 210, 217>>,
      <<"preco_exercicio_pontos", 217, 230>>, <<"isin", 230, 242>>,
      <<"distribuicao", 242, 245>>>>

NomesColunas == {colunas_spec[k][1] : k \in 1..Len(colunas_spec)}

Coluna(nome) == CHOOSE k \in 1..Len(colunas_spec) : colunas_spec[k][1] = nome

Registro(linha) ==
    [nome \in NomesColunas |->
        Strip(Fatia(linha, colunas_spec[Coluna(nome)][2],
                    colunas_spec[Coluna(nome)][3]))]

Dados(linhas) ==
    LET sel == SelectSeq(linhas, LAMBDA l : StartsWith(l, <<"0", "1">>))
    IN [k \in 1..Len(sel) |-> Registro(sel[k])]

campos_preco ==
    {"preco_abertura", "preco_maximo", "preco_minimo", "preco_medio", "preco_ultimo"}

ConverterSemEscalaNoVolume(r) ==
    [nome \in DOMAIN r |->
        CASE nome = "data_pregao" -> ToDatetime(r[nome])
          [] nome \in campos_preco -> DivididoPor(ToNumeric(r[nome]), 100)
          [] nome \in {"volume_total", "quantidade_negociada", "total_negocios"} ->
               ToNumeric(r[nome])
          [] OTHER -> r[nome]]

Converter(r) ==
    [nome \in DOMAIN r |->
        CASE nome = "data_pregao" -> ToDatetime(r[nome])
          [] nome \in campos_preco -> DivididoPor(ToNumeric(r[nome]), 100)
          [] nome = "volume_total" -> DivididoPor(ToNumeric(r[nome]), 100)
          [] nome \in {"quantidade_negociada", "total_negocios"} -> ToNumeric(r[nome])
          [] OTHER -> r[nome]]

OrdemPregao(a, b) ==
    \/ a.data_pregao < b.data_pregao
    \/ a.data_pregao = b.data_pregao /\ TextoMenor(a.ticker, b.ticker)

\* The data frame processar_cotahist leaves in df_completo, or the
\* exception it raises: a frame built from no record has no column
\* (KeyError) and a date that is not a date is a ValueError.
ProcessarCotahist(linhas) ==
    LET dados == Dados(linhas)
    IN IF dados = <<>> THEN [excecao |-> "KeyError", df |-> None]
       ELSE IF \E k \in 1..Len(dados) : ~DataValida(dados[k].data_pregao)
       THEN [excecao |-> "ValueError", df |-> None]
       ELSE [excecao |-> "",
             df |-> [presente |-> TRUE,
                     linhas |-> SortSeq([k \in 1..Len(dados) |-> Converter(dados[k])],
                                        OrdemPregao)]]

(***************************************************************************)
(* filtrar_acoes_principais.  A data frame is [presente, linhas]: the      *)
(* sequence of its rows.                                                   *)
(***************************************************************************)
Frame(linhas) == [presente |-> TRUE, linhas |-> linhas]

TickersDe(linhas) == {linhas[k].ticker : k \in 1..Len(linhas)}

LinhasDoTicker(linhas, t) == SelectSeq(linhas, LAMBDA r : r.ticker = t)

\* re.match(r'^[A-Z]{4}(3|4|5|6|11)$'): $ also matches before a final newline.
CasaPadrao(t) ==
    LET u == IF t # <<>> /\ t[Len(t)] = "\n" THEN SubSeq(t, 1, Len(t) - 1) ELSE t
    IN /\ Len(u) >= 5
       /\ \A k \in 1..4 : u[k] \in Range(Maiusculas)
       /\ SubSeq(u, 5, Len(u)) \in {<<"3">>, <<"4">>, <<"5">>, <<"6">>, <<"1", "1">>}

\* Series.mean(): NaN is skipped; the mean of no value is NaN.
RECURSIVE SomaFracoes(_)
SomaFracoes(s) ==
    IF s = <<>> THEN Zero
    ELSE LET r == SomaFracoes(Tail(s))
         IN [num |-> Head(s).num * r.den + r.num * Head(s).den,
             den |-> Head(s).den * r.den]

Media(s) ==
    LET v == SelectSeq(s, LAMBDA x : x # NaN)
    IN IF v = <<>> THEN NaN
       ELSE DivididoPor(SomaFracoes(v), Len(v))

\* x >= k for a float x and an integer k: False when x is NaN.
MaiorOuIgual(x, k) == x # NaN /\ x.num >= k * x.den

ColunaDe(linhas, campo) == [k \in 1..Len(linhas) |-> linhas[k][campo]]

LiquidoSoPorDias(linhas, t, min_dias_negociacao, min_volume_medio) ==
    Len(LinhasDoTicker(linhas, t)) >= min_dias_negociacao

Liquido(linhas, t, min_dias_negociacao, min_volume_medio) ==
    LET g == LinhasDoTicker(linhas, t)
    IN /\ Len(g) >= min_dias_negociacao
       /\ MaiorOuIgual(Media(ColunaDe(g, "volume_total")), min_volume_medio)

AtivosLiquidos(linhas, min_dias_negociacao, min_volume_medio) ==
    {t \in TickersDe(linhas) :
        Liquido(linhas, t, min_dias_negociacao, min_volume_medio)}

FiltrarAcoesPrincipais(df, min_dias_negociacao, min_volume_medio) ==
    LET bdi == SelectSeq(df.linhas, LAMBDA r : r.cod_bdi = <<"0", "2">>)
        acoes == SelectSeq(bdi, LAMBDA r : CasaPadrao(r.ticker))
        ativos_liquidos == AtivosLiquidos(acoes, min_dias_negociacao, min_volume_medio)
    IN Frame(SelectSeq(acoes, LAMBDA r : r.ticker \in ativos_liquidos))

(***************************************************************************)
(* calcular_retornos.  df_precos is the pivot of df_acoes: one row for     *)
(* each day of the frame, one column for each ticker, NaN where the ticker *)
(* has no row on the day.  A log return is an exact multiple of ln 2: the  *)
(* prices of the inputs are a common unit times a power of two, and        *)
(* Log2 is the integer k with a = b * 2^k for such prices.                 *)
(***************************************************************************)
DatasDe(linhas) == {linhas[k].data_pregao : k \in 1..Len(linhas)}

RECURSIVE Ordenado(_)
Ordenado(S) ==
    IF S = {} THEN <<>>
    ELSE LET m == CHOOSE m \in S : \A w \in S : m <= w
         IN <<m>> \o Ordenado(S \ {m})

Duplicadas(linhas) ==
    \E j, k \in 1..Len(linhas) :
        /\ j # k
        /\ linhas[j].data_pregao = linhas[k].data_pregao
        /\ linhas[j].ticker = linhas[k].ticker

\* The matrix with each missing price replaced by the last earlier price of
\* the ticker (a forward fill), which the code does not do.
PivotPreenchido(linhas) ==
    LET datas == Ordenado(DatasDe(linhas))
        Em(d, t) == {k \in 1..Len(linhas) :
                        /\ linhas[k].ticker = t
                        /\ \E e \in 1..d : linhas[k].data_pregao = datas[e]}
    IN [d \in 1..Len(datas) |->
          [t \in TickersDe(linhas) |->
              IF Em(d, t) = {} THEN NaN
              ELSE LET k == CHOOSE k \in Em(d, t) :
                              \A j \in Em(d, t) :
                                  linhas[j].data_pregao <= linhas[k].data_pregao
                   IN linhas[k].preco_ultimo]]

Pivot(linhas) ==
    LET datas == Ordenado(DatasDe(linhas))
    IN [d \in 1..Len(datas) |->
          [t \in TickersDe(linhas) |->
              IF \E k \in 1..Len(linhas) :
                    linhas[k].data_pregao = datas[d] /\ linhas[k].ticker = t
              THEN LET k == CHOOSE k \in 1..Len(linhas) :
                              linhas[k].data_pregao = datas[d] /\ linhas[k].ticker = t
                   IN linhas[k].preco_ultimo
              ELSE NaN]]

RECURSIVE Log2(_, _)
Log2(a, b) ==
    IF a >= b
    THEN IF a < 2 * b THEN 0 ELSE 1 + Log2(a, 2 * b)
    ELSE Log2(2 * a, b) - 1

\* np.log(p / q): NaN when either price is NaN.
LogRetorno(p, q) ==
    IF p = NaN \/ q = NaN THEN NaN
    ELSE [num |-> Log2(p.num * q.den, q.num * p.den), den |-> 1]

TodosNaN(linha) == \A t \in DOMAIN linha : linha[t] = NaN

Retornos(linhas) ==
    LET df_precos == Pivot(linhas)
        bruto == [d \in 1..Len(df_precos) |->
                    [t \in TickersDe(linhas) |->
                        IF d = 1 THEN NaN
                        ELSE LogRetorno(df_precos[d][t], df_precos[d - 1][t])]]
        datas == Ordenado(DatasDe(linhas))
        ficam == SelectSeq([d \in 1..Len(df_precos) |-> d],
                           LAMBDA d : ~TodosNaN(bruto[d]))
    IN [presente |-> TRUE,
        colunas |-> TickersDe(linhas),
        indice |-> [k \in 1..Len(ficam) |-> datas[ficam[k]]],
        linhas |-> [k \in 1..Len(ficam) |-> bruto[ficam[k]]]]

CalcularRetornos(df) ==
    IF Duplicadas(df.linhas)
    THEN [excecao |-> "ValueError", df |-> None]
    ELSE [excecao |-> "",
          df |-> Retornos(df.linhas)]

(***************************************************************************)
(* calcular_metricas.  The mean of a column is a fraction; the standard    *)
(* deviation (ddof = 1) is kept by its square, [quadrado |-> variance], so *)
(* no square root is taken, and it is NaN for fewer than two values; a     *)
(* Sharpe ratio is NaN (NaN operand or 0/0), an infinity with a sign (a    *)
(* non-zero return over a zero deviation) or the sign and the square of    *)
(* the quotient.  The column nome_empresa is a str of the first row of the *)
(* ticker and is never NaN.                                                *)
(***************************************************************************)
DIAS_ANUALIZACAO == 252

Inf(sinal) == [inf |-> sinal]

Sinal(n) == IF n > 0 THEN 1 ELSE IF n < 0 THEN -1 ELSE 0

Valores(df, t) ==
    LET col == [d \in 1..Len(df.linhas) |-> df.linhas[d][t]]
        v == SelectSeq(col, LAMBDA x : x # NaN)
    IN [k \in 1..Len(v) |-> v[k].num]

SomaSeq(s) == Soma(s, 1..Len(s))

RetornoEsperado(v, dias_anualizacao) ==
    IF Len(v) = 0 THEN NaN
    ELSE [num |-> SomaSeq(v) * dias_anualizacao, den |-> Len(v)]

DesvioPadrao(v, dias_anualizacao) ==
    IF Len(v) < 2 THEN NaN
    ELSE [quadrado |->
             [num |-> (Len(v) * SomaSeq([k \in 1..Len(v) |-> v[k] * v[k]])
                         - SomaSeq(v) * SomaSeq(v)) * dias_anualizacao,
              den |-> Len(v) * (Len(v) - 1)]]

SharpeRatio(retorno, desvio) ==
    IF retorno = NaN \/ desvio = NaN THEN NaN
    ELSE IF desvio.quadrado.num = 0
    THEN IF retorno.num = 0 THEN NaN ELSE Inf(Sinal(retorno.num))
    ELSE [sinal |-> Sinal(retorno.num),
          quadrado |-> [num |-> retorno.num * retorno.num * desvio.quadrado.den,
                        den |-> retorno.den * retorno.den * desvio.quadrado.num]]

\* groupby('ticker')[campo].last(): the last value that is not NaN.
Ultimo(s) ==
    LET v == SelectSeq(s, LAMBDA x : x # NaN)
    IN IF v = <<>> THEN NaN ELSE v[Len(v)]

LinhaMetricas(df_a, df_r, t, dias_anualizacao) ==
    LET v == Valores(df_r, t)
        g == LinhasDoTicker(df_a.linhas, t)
        retorno == RetornoEsperado(v, dias_anualizacao)
        desvio == DesvioPadrao(v, dias_anualizacao)
    IN [retorno_esperado |-> retorno,
        desvio_padrao |-> desvio,
        sharpe_ratio |-> SharpeRatio(retorno, desvio),
        preco_atual |-> Ultimo(ColunaDe(g, "preco_ultimo")),
        volume_medio |-> Media(ColunaDe(g, "volume_total"))]

\* DataFrame.dropna(): a row goes when one of its values is NaN.
TemNaN(linha) == \E c \in DOMAIN linha : linha[c] = NaN

CalcularMetricas(df_a, df_r, dias_anualizacao) ==
    LET todas == [t \in df_r.colunas |-> LinhaMetricas(df_a, df_r, t, dias_anualizacao)]
        ficam == {t \in df_r.colunas : ~TemNaN(todas[t])}
    IN [presente |-> TRUE, linhas |-> [t \in ficam |-> todas[t]]]

(***************************************************************************)
(* classificar_setores.  The file of sectors is the sequence of its rows   *)
(* [setor, prefixo]; a later row replaces an earlier row of the same       *)
(* prefix in mapa_setores.                                                 *)
(***************************************************************************)
Outros == <<"O", "u", "t", "r", "o", "s">>

RECURSIVE MapaSetores(_)
MapaSetores(linhas) ==
    IF linhas = <<>> THEN <<>>
    ELSE LET r == linhas[Len(linhas)]
         IN (Strip(r.prefixo) :> Strip(r.setor))
                @@ MapaSetores(SubSeq(linhas, 1, Len(linhas) - 1))

ObterSetorSoPrefixo(mapa_setores, ticker) ==
    LET prefixo == Fatia(ticker, 0, 4)
    IN IF prefixo \in DOMAIN mapa_setores THEN mapa_setores[prefixo] ELSE Outros

ObterSetor(mapa_setores, ticker) ==
    IF ticker \in DOMAIN mapa_setores THEN mapa_setores[ticker]
    ELSE LET prefixo == Fatia(ticker, 0, 4)
         IN IF prefixo \in DOMAIN mapa_setores THEN mapa_setores[prefixo] ELSE Outros

ClassificarSetores(met, arquivo) ==
    IF ~arquivo.presente THEN [excecao |-> "FileNotFoundError", metricas |-> met]
    ELSE LET mapa_setores == MapaSetores(arquivo.linhas)
         IN [excecao |-> "",
             metricas |->
                 [presente |-> TRUE,
                  linhas |-> [t \in DOMAIN met.linhas |->
                                 met.linhas[t]
                                    @@ [setor |-> ObterSetor(mapa_setores, t)]]]]

(***************************************************************************)
(* Inputs of the data processor.                                           *)
(***************************************************************************)
MaxDias == 3
MaxDiasFiltro == 2
VolumeAlto == 3

MIN_DIAS_NEGOCIACAO == 200
MIN_VOLUME_MEDIO == 1000000

PETR4 == <<"P", "E", "T", "R", "4">>
PETR3 == <<"P", "E", "T", "R", "3">>
PETR4F == <<"P", "E", "T", "R", "4", "F">>
VALE3 == <<"V", "A", "L", "E", "3">>
BDI02 == <<"0", "2">>
BDI96 == <<"9", "6">>

RECURSIVE Espacos(_)
Espacos(n) == IF n <= 0 THEN <<>> ELSE <<" ">> \o Espacos(n - 1)

\* A line of the tape: every field of colunas_spec in its columns, filled
\* with spaces to its width, and the end of line.
RECURSIVE MontarLinha(_, _)
MontarLinha(campos, k) ==
    IF k = 0 THEN <<>>
    ELSE LET c == colunas_spec[k]
             v == IF c[1] \in DOMAIN campos THEN campos[c[1]] ELSE <<>>
         IN MontarLinha(campos, k - 1) \o v \o Espacos(c[3] - c[2] - Len(v))

Linha(campos) == MontarLinha(campos, Len(colunas_spec)) \o <<"\n">>

RECURSIVE Zeros(_)
Zeros(n) == IF n <= 0 THEN <<>> ELSE <<"0">> \o Zeros(n - 1)

ZerosEsq(s, n) == Zeros(n - Len(s)) \o s

Campos(tipo, data, ticker, medio, ultimo, volume) ==
    [tipo_registro |-> tipo,
     data_pregao |-> data,
     cod_bdi |-> BDI02,
     ticker |-> ticker,
     tipo_mercado |-> <<"0", "1", "0">>,
     nome_empresa |-> <<"A", "C", "M", "E", " ", "O", "N">>,
     preco_abertura |-> ZerosEsq(<<"1", "0", "0">>, 13),
     preco_maximo |-> ZerosEsq(<<"4", "0", "0">>, 13),
     preco_minimo |-> ZerosEsq(<<"5", "0">>, 13),
     preco_medio |-> medio,
     preco_ultimo |-> ultimo,
     total_negocios |-> ZerosEsq(<<"7">>, 5),
     quantidade_negociada |-> ZerosEsq(<<"9", "0">>, 18),
     volume_total |-> volume]

DiaUm == <<"2", "0", "2", "4", "0", "1", "0", "2">>
DiaDois == <<"2", "0", "2", "4", "0", "1", "0", "3">>
DiaInvalido == <<"2", "0", "2", "4", "A", "B", "0", "3">>

PrecosTape ==
    {ZerosEsq(<<"2", "0", "0">>, 13), ZerosEsq(<<"2", "X", "0">>, 13), <<>>}

MediosTape == {ZerosEsq(<<"1", "5", "0">>, 13), <<"N", "/", "D">>}

VolumesTape == {ZerosEsq(<<"1", "2", "3", "4", "5">>, 18), <<"X">>}

LinhasA ==
    {Linha(Campos(<<"0", "1">>, d, VALE3, m, u, v)) :
        d \in {DiaDois, DiaInvalido}, m \in MediosTape, u \in PrecosTape,
        v \in VolumesTape}

LinhasB ==
    {Linha(Campos(tipo, DiaUm, PETR4, ZerosEsq(<<"1", "0", "0">>, 13), u,
                  ZerosEsq(<<"8", "0", "0">>, 18))) :
        tipo \in {<<"0", "1">>, <<"0", "2">>},
        u \in {ZerosEsq(<<"1", "0", "0">>, 13), <<"1", "0", "0">>}}

Cabecalho == <<"0", "0", "C", "O", "T", "A", "H", "I", "S", "T", "\n">>

Rodape == <<"9", "9", "C", "O", "T", "A", "H", "I", "S", "T", "\n">>

Tapes ==
    {<<Cabecalho, Rodape>>}
    \cup {<<Cabecalho, a, Rodape>> : a \in LinhasA}
    \cup {<<Cabecalho, a, b, Rodape>> : a \in LinhasA, b \in LinhasB}

Arquivo(linhas) == [presente |-> TRUE, linhas |-> linhas]

Energia == <<"E", "n", "e", "r", "g", "i", "a">>
Petroleo == <<"P", "e", "t", "r", "o", "l", "e", "o">>
Mineracao == <<"M", "i", "n", "e", "r", "a", "c", "a", "o">>
Bancos == <<"B", "a", "n", "c", "o", "s">>

LinhasSetores ==
    {[setor |-> Energia, prefixo |-> PETR4],
     [setor |-> Petroleo, prefixo |-> <<"P", "E", "T", "R">>],
     [setor |-> Bancos \o <<" ">>, prefixo |-> <<" ", "P", "E", "T", "R", " ">>],
     [setor |-> Mineracao, prefixo |-> <<"V", "A", "L", "E">>],
     [setor |-> Bancos, prefixo |-> <<"I", "T", "U", "B">>]}

SetoresExemplo ==
    Arquivo(<<[setor |-> Petroleo, prefixo |-> <<"P", "E", "T", "R">>],
              [setor |-> Mineracao, prefixo |-> <<"V", "A", "L", "E">>]>>)

MaxLinhasSetores == 2

RECURSIVE Sequencias(_, _)
Sequencias(S, n) ==
    IF n = 0 THEN {<<>>}
    ELSE Sequencias(S, n - 1)
         \cup {Append(q, x) : q \in {r \in Sequencias(S, n - 1) : Len(r) = n - 1},
                              x \in S}

Fracao(n) == [num |-> 100 * n, den |-> 100]

Dia(d) == 20240100 + d

LinhaAcao(d, t, bdi, preco, volume) ==
    [data_pregao |-> Dia(d), ticker |-> t, cod_bdi |-> bdi,
     preco_ultimo |-> preco, volume_total |-> volume]

\* The rows of a frame, day by day and ticker by ticker, from the cell
\* (a row or no row) of each day and ticker.
RECURSIVE LinhasDasCelulas(_, _, _)
LinhasDasCelulas(cel, tickers, d) ==
    IF d = 0 THEN <<>>
    ELSE LinhasDasCelulas(cel, tickers, d - 1)
         \o SelectSeq([k \in 1..Len(tickers) |-> cel[d][tickers[k]]],
                      LAMBDA r : r.presente)

PrecosA == {-1, 0, 1, 2, 4}
PrecosB == {0, 1}

\* A cell of the price matrix: no trade row (0), a trade row whose price
\* field was not a number (-1), or a trade row with the price p.
CelulaPreco(d, t, p) ==
    IF p = 0 THEN None
    ELSE IF p < 0
    THEN LinhaAcao(d, t, BDI02, NaN, Fracao(VolumeAlto)) @@ [presente |-> TRUE]
    ELSE LinhaAcao(d, t, BDI02, Fracao(p), Fracao(VolumeAlto)) @@ [presente |-> TRUE]

FramesDeAcoes ==
    {Frame(LinhasDasCelulas(
         [d \in 1..MaxDias |->
             (PETR4 :> CelulaPreco(d, PETR4, pa[d]))
                 @@ (VALE3 :> CelulaPreco(d, VALE3, pb[d]))],
         <<PETR4, VALE3>>, MaxDias)) :
        pa \in [1..MaxDias -> PrecosA], pb \in [1..MaxDias -> PrecosB]}

TiposCelula == {"nenhuma", "baixo", "alto", "nan", "outro_bdi"}

TiposCelulaSimples == {"nenhuma", "baixo", "alto"}

CelulaFiltro(d, t, tipo) ==
    CASE tipo = "nenhuma" -> None
      [] tipo = "baixo" ->
           LinhaAcao(d, t, BDI02, Fracao(1), Fracao(1)) @@ [presente |-> TRUE]
      [] tipo = "alto" ->
           LinhaAcao(d, t, BDI02, Fracao(1), Fracao(VolumeAlto)) @@ [presente |-> TRUE]
      [] tipo = "nan" ->
           LinhaAcao(d, t, BDI02, Fracao(1), NaN) @@ [presente |-> TRUE]
      [] tipo = "outro_bdi" ->
           LinhaAcao(d, t, BDI96, Fracao(1), Fracao(VolumeAlto)) @@ [presente |-> TRUE]

FramesCompletos ==
    {Frame(LinhasDasCelulas(
         [d \in 1..MaxDiasFiltro |->
             (PETR4 :> CelulaFiltro(d, PETR4, ca[d]))
                 @@ (VALE3 :> CelulaFiltro(d, VALE3, cb[d]))
                 @@ (PETR4F :> CelulaFiltro(d, PETR4F, IF d = 1 THEN cf ELSE "nenhuma"))],
         <<PETR4, PETR4F, VALE3>>, MaxDiasFiltro)) :
        ca \in [1..MaxDiasFiltro -> TiposCelula],
        cb \in [1..MaxDiasFiltro -> TiposCelulaSimples],
        cf \in {"nenhuma", "alto"}}

MetricasExemplo(T) ==
    [presente |-> TRUE,
     linhas |-> [t \in T |->
                    [retorno_esperado |-> [num |-> 252, den |-> 2],
                     desvio_padrao |-> [quadrado |-> [num |-> 504, den |-> 2]],
                     sharpe_ratio |-> [sinal |-> 1,
                                       quadrado |-> [num |-> 127008, den |-> 2016]],
                     preco_atual |-> Fracao(2),
                     volume_medio |-> Fracao(VolumeAlto)]]]

(***************************************************************************)
(* The state machine of the data processor: main.processar_dados, the      *)
(* stages of executar_pipeline_completo, and pipeline_completo going on to *)
(* the optimisation.  An exception leaves the run where it was raised.     *)
(***************************************************************************)
OtimizadorOcioso ==
    /\ metricas = <<>>
    /\ config = <<>>
    /\ pc = "ocioso"
    /\ model = None
    /\ status = "NENHUM"
    /\ atrib = SemSolucao
    /\ solucao = None
    /\ extraiu = FALSE
    /\ ret_otimizar = None
    /\ ret_executar = None
    /\ carteira_csv = None
    /\ erro = ""
    /\ params = None
    /\ anterior = None
    /\ passos = <<>>

SemFrames ==
    /\ df_completo = None
    /\ df_acoes = None
    /\ df_retornos = None
    /\ metricas_cp = None

\* main.processar_dados on the files of the working directory.
InitPipeline ==
    /\ arquivo_cotahist \in {None} \cup {Arquivo(t) : t \in Tapes}
    /\ arquivo_setores \in {None, SetoresExemplo}
    /\ min_dias = MIN_DIAS_NEGOCIACAO
    /\ min_volume = MIN_VOLUME_MEDIO
    /\ SemFrames
    /\ etapa = "inicio"

\* filtrar_acoes_principais on a frame of trade rows.
InitFiltro ==
    /\ arquivo_cotahist = Arquivo(<<>>)
    /\ arquivo_setores = SetoresExemplo
    /\ min_dias \in {1, MaxDiasFiltro}
    /\ min_volume = VolumeAlto - 1
    /\ df_completo \in FramesCompletos
    /\ df_acoes = None
    /\ df_retornos = None
    /\ metricas_cp = None
    /\ etapa = "processado"

\* calcular_retornos and calcular_metricas on a frame of liquid stocks.
InitMetricas ==
    /\ arquivo_cotahist = Arquivo(<<>>)
    /\ arquivo_setores = SetoresExemplo
    /\ min_dias = 1
    /\ min_volume = 1
    /\ df_completo = None
    /\ df_acoes \in FramesDeAcoes
    /\ df_retornos = None
    /\ metricas_cp = None
    /\ etapa = "filtrado"

\* classificar_setores on the metrics of some tickers and a sector file.
InitSetores ==
    /\ arquivo_cotahist = Arquivo(<<>>)
    /\ arquivo_setores \in {Arquivo(q) : q \in Sequencias(LinhasSetores, MaxLinhasSetores)}
    /\ min_dias = 1
    /\ min_volume = 1
    /\ df_completo = None
    /\ df_acoes = None
    /\ df_retornos = None
    /\ metricas_cp \in {MetricasExemplo(T) : T \in (SUBSET {PETR4, PETR3, VALE3}) \ {{}}}
    /\ etapa = "metricas"

InitDados ==
    /\ OtimizadorOcioso
    /\ ConfigOcioso
    /\ metricas_csv = None
    /\ excecao = ""
    /\ ret_processar = None
    /\ \/ InitPipeline
       \/ InitFiltro
       \/ InitMetricas
       \/ InitSetores

Levanta(e) ==
    /\ excecao' = e
    /\ etapa' = "excecao"

\* main.processar_dados, lines 41-49.
ProcessarDados ==
    /\ etapa = "inicio"
    /\ IF ~arquivo_cotahist.presente
       THEN /\ etapa' = "retornou"
            /\ ret_processar' = None
       ELSE /\ etapa' = "pipeline"
            /\ UNCHANGED ret_processar
    /\ UNCHANGED <<arquivo_cotahist, arquivo_setores, min_dias, min_volume,
                   df_completo, df_acoes, df_retornos, metricas_cp, metricas_csv,
                   excecao>>
    /\ UNCHANGED <<otimizador, configurador>>

PassoProcessarCotahist ==
    /\ etapa = "pipeline"
    /\ LET r == ProcessarCotahist(arquivo_cotahist.linhas)
       IN IF r.excecao # ""
          THEN Levanta(r.excecao) /\ UNCHANGED df_completo
          ELSE /\ df_completo' = r.df
               /\ etapa' = "processado"
               /\ UNCHANGED excecao
    /\ UNCHANGED <<arquivo_cotahist, arquivo_setores, min_dias, min_volume,
                   df_acoes, df_retornos, metricas_cp, metricas_csv, ret_processar>>
    /\ UNCHANGED <<otimizador, configurador>>

PassoFiltrar ==
    /\ etapa = "processado"
    /\ df_acoes' = FiltrarAcoesPrincipais(df_completo, min_dias, min_volume)
    /\ etapa' = "filtrado"
    /\ UNCHANGED <<arquivo_cotahist, arquivo_setores, min_dias, min_volume,
                   df_completo, df_retornos, metricas_cp, metricas_csv,
                   excecao, ret_processar>>
    /\ UNCHANGED <<otimizador, configurador>>

PassoRetornos ==
    /\ etapa = "filtrado"
    /\ LET r == CalcularRetornos(df_acoes)
       IN IF r.excecao # ""
          THEN Levanta(r.excecao) /\ UNCHANGED df_retornos
          ELSE /\ df_retornos' = r.df
               /\ etapa' = "retornos"
               /\ UNCHANGED excecao
    /\ UNCHANGED <<arquivo_cotahist, arquivo_setores, min_dias, min_volume,
                   df_completo, df_acoes, metricas_cp, metricas_csv, ret_processar>>
    /\ UNCHANGED <<otimizador, configurador>>

PassoMetricas ==
    /\ etapa = "retornos"
    /\ metricas_cp' = CalcularMetricas(df_acoes, df_retornos, DIAS_ANUALIZACAO)
    /\ etapa' = "metricas"
    /\ UNCHANGED <<arquivo_cotahist, arquivo_setores, min_dias, min_volume,
                   df_completo, df_acoes, df_retornos, metricas_csv,
                   excecao, ret_processar>>
    /\ UNCHANGED <<otimizador, configurador>>

PassoSetores ==
    /\ etapa = "metricas"
    /\ LET r == ClassificarSetores(metricas_cp, arquivo_setores)
       IN IF r.excecao # ""
          THEN Levanta(r.excecao) /\ UNCHANGED metricas_cp
          ELSE /\ metricas_cp' = r.metricas
               /\ etapa' = "classificado"
               /\ UNCHANGED excecao
    /\ UNCHANGED <<arquivo_cotahist, arquivo_setores, min_dias, min_volume,
                   df_completo, df_acoes, df_retornos, metricas_csv, ret_processar>>
    /\ UNCHANGED <<otimizador, configurador>>

\* salvar_metricas and the return of executar_pipeline_completo.
PassoSalvar ==
    /\ etapa = "classificado"
    /\ metricas_csv' = IF metricas_cp.presente THEN metricas_cp ELSE metricas_csv
    /\ ret_processar' = metricas_cp
    /\ etapa' = "retornou"
    /\ UNCHANGED <<arquivo_cotahist, arquivo_setores, min_dias, min_volume,
                   df_completo, df_acoes, df_retornos, metricas_cp, excecao>>
    /\ UNCHANGED <<otimizador, configurador>>

\* main.pipeline_completo, lines 169-174: the optimisation starts on the
\* metrics processar_dados returned.
IniciarOtimizacao ==
    /\ etapa = "retornou"
    /\ ret_processar.presente
    /\ etapa' = "otimizando"
    /\ UNCHANGED <<arquivo_cotahist, arquivo_setores, min_dias, min_volume,
                   df_completo, df_acoes, df_retornos, metricas_cp, metricas_csv,
                   excecao, ret_processar>>
    /\ UNCHANGED <<otimizador, configurador>>

NextDados ==
    \/ ProcessarDados
    \/ PassoProcessarCotahist
    \/ PassoFiltrar
    \/ PassoRetornos
    \/ PassoMetricas
    \/ PassoSetores
    \/ PassoSalvar
    \/ IniciarOtimizacao

SpecDados == InitDados /\ [][NextDados]_vars

(***************************************************************************)
(* config.obter_config and its callers.  A scenario name is the sequence   *)
(* of its characters; a dictionary is held by reference (its position in   *)
(* objetos), so that a caller who changes a dictionary changes every       *)
(* holder of the same reference.                                           *)
(***************************************************************************)
MaxChamadas == 3

Lower(s) ==
    [k \in 1..Len(s) |->
        IF \E j \in 1..Len(Maiusculas) : Maiusculas[j] = s[k]
        THEN Minusculas[CHOOSE j \in 1..Len(Maiusculas) : Maiusculas[j] = s[k]]
        ELSE s[k]]

Conservador == <<"c", "o", "n", "s", "e", "r", "v", "a", "d", "o", "r">>

Moderado == <<"m", "o", "d", "e", "r", "a", "d", "o">>

Agressivo == <<"a", "g", "r", "e", "s", "s", "i", "v", "o">>

\* The dictionary cenarios of obter_config: name -> reference.
cenarios == (Conservador :> 1) @@ (Moderado :> 2) @@ (Agressivo :> 3)

\* cenarios.get(cenario.lower(), CENARIO_MODERADO)
Referencia(cenario) == ConfigGet(cenarios, Lower(cenario), 2)

Atualizacao(cenario) ==
    [time_limit |-> TIME_LIMIT, mip_gap |-> MIP_GAP,
     top_n_ativos |-> TOP_N_ATIVOS, cenario_nome |-> Lower(cenario)]

\* obter_config without .copy(): the update is written into the preset and
\* the preset itself is returned.
ObterConfigSemCopia(objs, cenario) ==
    LET r == Referencia(cenario)
    IN [objetos |-> [objs EXCEPT ![r] = Atualizacao(cenario) @@ @], ref |-> r]

\* obter_config: a new dictionary, the copy of the preset, updated.
ObterConfig(objs, cenario) ==
    LET copia == objs[Referencia(cenario)]
    IN [objetos |-> Append(objs, Atualizacao(cenario) @@ copia),
        ref |-> Len(objs) + 1]

\* The names callers pass: a preset, a preset in another case, no preset.
Nomes ==
    {Conservador,
     <<"M", "o", "d", "e", "r", "a", "d", "o">>,
     Agressivo,
     <<"x">>}

\* What a caller does to a dictionary it was given.
Mutacoes == {[orcamento |-> 0], [excluir_retorno_negativo |-> FALSE]}

InitConfig ==
    /\ OtimizadorOcioso
    /\ ProcessadorOcioso
    /\ ConfigOcioso

ChamarObterConfig ==
    /\ Len(chamadas) < MaxChamadas
    /\ \E cenario \in Nomes :
          LET r == ObterConfig(objetos, cenario)
          IN /\ objetos' = r.objetos
             /\ chamadas' = Append(chamadas,
                                   [cenario |-> cenario, ref |-> r.ref,
                                    valor |-> r.objetos[r.ref]])
    /\ UNCHANGED <<otimizador, processador>>

MutarConfig ==
    /\ \E k \in 1..Len(chamadas), m \in Mutacoes :
          objetos' = [objetos EXCEPT ![chamadas[k].ref] = m @@ @]
    /\ UNCHANGED chamadas
    /\ UNCHANGED <<otimizador, processador>>

NextConfig ==
    \/ ChamarObterConfig
    \/ MutarConfig

SpecConfig == InitConfig /\ [][NextConfig]_vars

(***************************************************************************)
(* main.otimizar_carteira under a preset: cfg = obter_config(cenario),     *)
(* then a PortfolioOptimizer on metricas and cfg.  The universes have six  *)
(* assets in three sectors, at the scale of the presets (prices in         *)
(* thousands against a budget of 100, returns and risks in percent); E and *)
(* F have a negative expected return in some of them.                      *)
(***************************************************************************)
SetorPreset(t) ==
    CASE t \in {"A", "B"} -> "S1"
      [] t \in {"C", "D"} -> "S2"
      [] OTHER -> "S3"

UniversosPresets ==
    {(("A" :> [preco_atual |-> 15, retorno_esperado |-> 20, desvio_padrao |-> 30])
      @@ ("B" :> [preco_atual |-> 15, retorno_esperado |-> 25, desvio_padrao |-> 40])
      @@ ("C" :> [preco_atual |-> 15, retorno_esperado |-> 15, desvio_padrao |-> 20])
      @@ ("D" :> [preco_atual |-> 15, retorno_esperado |-> 30, desvio_padrao |-> 45])
      @@ ("E" :> [preco_atual |-> 15, retorno_esperado |-> re, desvio_padrao |-> 25])
      @@ ("F" :> [preco_atual |-> 15, retorno_esperado |-> rf, desvio_padrao |-> 10])) :
        re \in {-2, 18}, rf \in {-5, 22}}

ComSetor(met) == [t \in DOMAIN met |-> met[t] @@ [setor |-> SetorPreset(t)]]

InitPresets ==
    /\ \E cenario \in {Conservador, Moderado, Agressivo} :
          LET r == ObterConfig(ModuloConfig, cenario)
          IN /\ objetos = r.objetos
             /\ chamadas = <<[cenario |-> cenario, ref |-> r.ref,
                              valor |-> r.objetos[r.ref]]>>
             /\ config = r.objetos[r.ref]
    /\ metricas \in {ComSetor(met) : met \in UniversosPresets}
    /\ pc = "novo"
    /\ model = None
    /\ status = "NENHUM"
    /\ atrib = SemSolucao
    /\ solucao = None
    /\ extraiu = FALSE
    /\ ret_otimizar = None
    /\ ret_executar = None
    /\ carteira_csv = None
    /\ erro = ""
    /\ params = None
    /\ anterior = None
    /\ passos = <<>>
    /\ ProcessadorOcioso

SpecPresets == InitPresets /\ [][Next]_vars

(***************************************************************************)
(* Properties of the optimisation core.                                    *)
(***************************************************************************)
Retornou == ret_otimizar.presente

\* C1: a result returned by otimizar has num_ativos_min <= num_ativos <=
\* num_ativos_max and investimento_total <= orcamento.
C1_CardinalidadeEOrcamento ==
    Retornou =>
        /\ config.num_ativos_min <= ret_otimizar.num_ativos
        /\ ret_otimizar.num_ativos <= config.num_ativos_max
        /\ ret_otimizar.investimento_total <= config.orcamento

C1_Witness ==
    /\ Retornou
    /\ ret_otimizar.num_ativos = config.num_ativos_max
    /\ ret_otimizar.num_ativos < Cardinality(DOMAIN metricas)
    /\ ret_otimizar.investimento_total = config.orcamento

\* C2: in a returned result the recomputed ratios satisfy
\* risco_total <= risco_maximo and retorno_total >= retorno_minimo.
C2_RazoesRealizadas ==
    Retornou =>
        /\ ret_otimizar.risco_total.num
              <= config.risco_maximo * ret_otimizar.risco_total.den
        /\ ret_otimizar.retorno_total.num
              >= config.retorno_minimo * ret_otimizar.retorno_total.den

C2_Witness ==
    /\ Retornou
    /\ ret_otimizar.investimento_total > 0
    /\ \E k \in DOMAIN ret_otimizar.carteira :
          ret_otimizar.carteira[k].desvio_padrao > config.risco_maximo
    /\ ret_otimizar.num_ativos >= 2
    /\ ret_otimizar.risco_total.num
          = config.risco_maximo * ret_otimizar.risco_total.den

\* C3: in every assignment of the solver x_i = 1 iff y_i >= 1 and x_i = 0
\* iff y_i = 0; every line item of a returned portfolio has quantity >= 1
\* and an asset outside the portfolio has quantity 0.
C3_Acoplamento ==
    /\ atrib.presente =>
          \A i \in DOMAIN metricas :
              /\ atrib.x[i] = 1 <=> atrib.y[i] >= 1
              /\ atrib.x[i] = 0 <=> atrib.y[i] = 0
    /\ Retornou =>
          /\ \A k \in DOMAIN ret_otimizar.carteira :
                ret_otimizar.carteira[k].quantidade >= 1
          /\ \A i \in DOMAIN metricas :
                (\A k \in DOMAIN ret_otimizar.carteira :
                    ret_otimizar.carteira[k].ticker # i) => atrib.y[i] = 0

C3_Witness ==
    /\ Retornou
    /\ \E i \in DOMAIN metricas : atrib.x[i] = 1 /\ atrib.y[i] >= 2
    /\ \E i \in DOMAIN metricas : atrib.x[i] = 0 /\ atrib.y[i] = 0

InvestimentoSetor(sol, s) ==
    Soma([k \in DOMAIN sol.carteira |->
              IF sol.carteira[k].setor = s THEN sol.carteira[k].investimento ELSE 0],
         DOMAIN sol.carteira)

SetoresInvestidos(sol) ==
    {s \in Setores(metricas) : InvestimentoSetor(sol, s) > 0}

\* C4: with sector diversification enabled, a returned result invests in at
\* least num_setores_min distinct sectors.
C4_SetoresMinimos ==
    (Retornou /\ DiversificacaoSetor(config)) =>
        Cardinality(SetoresInvestidos(ret_otimizar)) >= NumSetoresMin(config)

\* C5: with sector diversification enabled, in a returned result the
\* investment in every sector of the universe is <= alpha_setor_max * orcamento.
C5_LimiteSetor ==
    (Retornou /\ DiversificacaoSetor(config)) =>
        \A s \in Setores(metricas) :
            100 * InvestimentoSetor(ret_otimizar, s)
                <= AlphaMax(config) * config.orcamento

C5_Witness ==
    /\ Retornou
    /\ DiversificacaoSetor(config)
    /\ \E s \in Setores(metricas) :
          /\ Cardinality({k \in DOMAIN ret_otimizar.carteira :
                              ret_otimizar.carteira[k].setor = s}) = 2
          /\ 100 * InvestimentoSetor(ret_otimizar, s)
                = AlphaMax(config) * config.orcamento
    /\ ret_otimizar.investimento_total < config.orcamento

\* C6: when negative-return exclusion is enabled (the flag is True or
\* absent), every asset with retorno_esperado < 0 has y = 0 in the solver's
\* assignment and no line item of a returned portfolio has a negative return.
C6_SemRetornoNegativo ==
    ConfigGet(config, "excluir_retorno_negativo", TRUE) =>
        /\ atrib.presente =>
              \A i \in DOMAIN metricas :
                  metricas[i].retorno_esperado < 0 => atrib.y[i] = 0
        /\ Retornou =>
              \A k \in DOMAIN ret_otimizar.carteira :
                  ret_otimizar.carteira[k].retorno_esperado >= 0

C6_Witness ==
    /\ ConfigGet(config, "excluir_retorno_negativo", TRUE)
    /\ Retornou
    /\ status = "OPTIMAL"
    /\ \E i \in DOMAIN metricas : metricas[i].retorno_esperado < 0
    /\ \E i \in DOMAIN metricas : atrib.y[i] > 0

SelecaoVazia == atrib.presente /\ \A i \in DOMAIN metricas : 2 * atrib.x[i] <= 1

\* C7: when the assignment selects no asset, extrair_solucao returns a
\* result with num_ativos 0, investimento_total 0 and return, risk and
\* Sharpe 0, and raises nothing.
C7_SelecaoVaziaSemErro ==
    (extraiu /\ SelecaoVazia) =>
        /\ erro = ""
        /\ solucao.presente
        /\ solucao.num_ativos = 0
        /\ solucao.investimento_total = 0
        /\ solucao.retorno_total = Zero
        /\ solucao.risco_total = Zero
        /\ solucao.sharpe_carteira = Zero

\* C8: no solver outcome crashes the run, and a solve that ends TIME_LIMIT
\* makes otimizar return a result.
C8_ToleraStatus ==
    /\ status \in {"OPTIMAL", "TIME_LIMIT", "INFEASIBLE", "OTHER"} => erro = ""
    /\ status = "TIME_LIMIT" => Retornou

\* C9: after INFEASIBLE or an unknown status otimizar returns None,
\* extrair_solucao has not run, executar_otimizacao_completa returns None
\* and no portfolio file is written.
C9_SemResultado ==
    status \in {"INFEASIBLE", "OTHER"} =>
        /\ pc \in {"otimizado", "fim"}
        /\ ret_otimizar = None
        /\ ~extraiu
        /\ solucao = None
        /\ ret_executar = None
        /\ carteira_csv = None

C9_Witness ==
    /\ pc = "fim"
    /\ status = "INFEASIBLE"
    /\ Viaveis(model, metricas, config) = {}

NoCenario == metricas = MetricasCenario /\ config = ConfigCenario

\* C10: in the concrete scenario every optimal assignment has y_C = 0 and
\* x_C = 0, the portfolio holds only A and B, and the realized return is
\* >= 0.10 and the realized risk <= 0.25.
C10_Cenario ==
    (NoCenario /\ status = "OPTIMAL") =>
        /\ atrib.y["C"] = 0
        /\ atrib.x["C"] = 0
        /\ Retornou
        /\ \A k \in DOMAIN ret_otimizar.carteira :
              ret_otimizar.carteira[k].ticker \in {"A", "B"}
        /\ ret_otimizar.retorno_total.num >= 10 * ret_otimizar.retorno_total.den
        /\ ret_otimizar.risco_total.num <= 25 * ret_otimizar.risco_total.den

C10_Witness ==
    /\ NoCenario
    /\ status = "OPTIMAL"
    /\ Retornou
    /\ ret_otimizar.num_ativos >= 1
    /\ ret_otimizar.funcao_objetivo = 200000

\* C17: in a returned result every line item has
\* preco * quantidade <= max_ativo_pct * orcamento, and so has every asset
\* of the solver's assignment, whether or not the key max_ativo_pct is in
\* the configuration (absent, the share is 1.0 and no constraint is built).
C17_LimitePorAtivo ==
    Retornou =>
        /\ \A k \in DOMAIN ret_otimizar.carteira :
              100 * ret_otimizar.carteira[k].investimento
                  <= MaxAtivoPct(config) * config.orcamento
        /\ \A i \in DOMAIN metricas :
              100 * metricas[i].preco_atual * atrib.y[i]
                  <= MaxAtivoPct(config) * config.orcamento

C17_Witness ==
    /\ Retornou
    /\ "max_ativo_pct" \in DOMAIN config
    /\ ret_otimizar.num_ativos = 2
    /\ \A k \in DOMAIN ret_otimizar.carteira :
          100 * ret_otimizar.carteira[k].investimento
              = MaxAtivoPct(config) * config.orcamento

\* C18: in a returned result investimento_total is the sum of the
\* investimento of the line items, the investimento of a line item is its
\* quantidade times its preco, and num_ativos is the number of line items.
C18_ResultadoCoerente ==
    Retornou =>
        /\ ret_otimizar.investimento_total
              = Soma([k \in DOMAIN ret_otimizar.carteira |->
                         ret_otimizar.carteira[k].investimento],
                     DOMAIN ret_otimizar.carteira)
        /\ \A k \in DOMAIN ret_otimizar.carteira :
              ret_otimizar.carteira[k].investimento
                  = ret_otimizar.carteira[k].quantidade
                      * ret_otimizar.carteira[k].preco
        /\ ret_otimizar.num_ativos = Len(ret_otimizar.carteira)

C18_Witness ==
    /\ Retornou
    /\ ret_otimizar.num_ativos = 2
    /\ \E k \in DOMAIN ret_otimizar.carteira :
          /\ ret_otimizar.carteira[k].quantidade >= 2
    /\ \E k \in DOMAIN ret_otimizar.carteira :
          ret_otimizar.carteira[k].preco >= 2
    /\ ret_otimizar.investimento_total = config.orcamento

\* C19: in a built model max_lotes >= floor(orcamento / preco_i) for every
\* asset with a positive price, and a quantity of one asset that the budget
\* alone allows is never above max_lotes.
C19_BigMSuficiente ==
    model.presente =>
        \A i \in DOMAIN metricas :
            metricas[i].preco_atual > 0 =>
                /\ model.max_lotes >= config.orcamento \div metricas[i].preco_atual
                /\ \A q \in 0..(model.max_lotes + Folga) :
                      q * metricas[i].preco_atual <= config.orcamento
                          => q <= model.max_lotes

C19_Witness ==
    /\ Retornou
    /\ \E i, j \in DOMAIN metricas :
          /\ metricas[i].preco_atual < metricas[j].preco_atual
          /\ model.max_lotes > config.orcamento \div metricas[j].preco_atual
          /\ atrib.y[i] = model.max_lotes
          /\ atrib.x[i] = 1

\* C20: the solve started by executar_otimizacao_completa runs with
\* Params.TimeLimit = config['time_limit'] and Params.MIPGap =
\* config['mip_gap'], the values obter_config put in the configuration.
C20_LimitesDoSolver ==
    params.presente =>
        /\ params.TimeLimit = config.time_limit
        /\ params.MIPGap = config.mip_gap

DuasOtimas ==
    /\ anterior.presente
    /\ anterior.solucao.presente
    /\ anterior.solucao.gap = 0
    /\ Retornou
    /\ status = "OPTIMAL"
    /\ ret_otimizar.gap = 0

C12_MetricasDefinidas ==
    metricas_cp.presente =>
        \A t \in DOMAIN metricas_cp.linhas :
            LET r == metricas_cp.linhas[t]
            IN /\ r.retorno_esperado # NaN
               /\ r.desvio_padrao # NaN
               /\ r.desvio_padrao.quadrado.num > 0
               /\ r.sharpe_ratio # NaN
               /\ "inf" \notin DOMAIN r.sharpe_ratio

\* C13: when the tape file or the sector file is missing, no stage of the
\* pipeline has done its work (no frame, no metrics), no metrics file is
\* written and the optimisation does not start.
C13_ArquivoAusenteFatal ==
    (etapa # "ocioso" /\ (~arquivo_cotahist.presente \/ ~arquivo_setores.presente)) =>
        /\ SemFrames
        /\ metricas_csv = None
        /\ etapa # "otimizando"

TickerValido(t) ==
    /\ Len(t) \in {5, 6}
    /\ \A k \in 1..4 : t[k] \in Range(Maiusculas)
    /\ Len(t) = 5 => t[5] \in {"3", "4", "5", "6"}
    /\ Len(t) = 6 => t[5] = "1" /\ t[6] = "1"

Elegiveis(t) ==
    {k \in 1..Len(df_completo.linhas) :
        /\ df_completo.linhas[k].ticker = t
        /\ df_completo.linhas[k].cod_bdi = BDI02
        /\ TickerValido(t)}

ComVolume(t) == {k \in Elegiveis(t) : df_completo.linhas[k].volume_total # NaN}

Mantida(k) ==
    LET r == df_completo.linhas[k]
        E == Elegiveis(r.ticker)
        V == ComVolume(r.ticker)
    IN /\ r.cod_bdi = BDI02
       /\ TickerValido(r.ticker)
       /\ Cardinality(E) >= min_dias
       /\ V # {}
       /\ Soma([j \in V |-> df_completo.linhas[j].volume_total.num], V)
              >= min_volume * 100 * Cardinality(V)

\* C14: filtrar_acoes_principais keeps a row of df_completo iff its cod_bdi
\* is '02', its ticker is four capital letters and 3, 4, 5, 6 or 11, and
\* the rows of the ticker that pass these two tests number at least
\* min_dias_negociacao and have a mean volume_total >= min_volume_medio.
C14_FiltroDeLiquidez ==
    (df_completo.presente /\ df_acoes.presente) =>
        df_acoes.linhas
            = LET idx == SelectSeq([k \in 1..Len(df_completo.linhas) |-> k],
                                   LAMBDA k : Mantida(k))
              IN [j \in 1..Len(idx) |-> df_completo.linhas[idx[j]]]

C14_Witness ==
    /\ df_completo.presente
    /\ df_acoes.presente
    /\ min_dias = 2
    /\ TickersDe(df_acoes.linhas) = {PETR4}
    /\ Len(df_acoes.linhas) = 2
    /\ Cardinality(Elegiveis(VALE3)) = 2
    /\ \E k \in 1..Len(df_completo.linhas) :
          df_completo.linhas[k].ticker = PETR4F
    /\ \E k \in Elegiveis(PETR4) :
          df_completo.linhas[k].volume_total = Fracao(1)

EntradasDe(chave) ==
    {k \in 1..Len(arquivo_setores.linhas) :
        Strip(arquivo_setores.linhas[k].prefixo) = chave}

UltimaEntrada(chave) ==
    Strip(arquivo_setores.linhas[
              CHOOSE k \in EntradasDe(chave) : \A j \in EntradasDe(chave) : j <= k].setor)

\* C15: the sector of a ticker is the sector of its own entry in the
\* mapping, else the sector of the entry of its first four characters,
\* else 'Outros'; classifying raises nothing.
C15_SetorDoTicker ==
    (etapa = "classificado" /\ arquivo_setores.presente) =>
        /\ excecao = ""
        /\ \A t \in DOMAIN metricas_cp.linhas :
              metricas_cp.linhas[t].setor
                  = IF EntradasDe(t) # {} THEN UltimaEntrada(t)
                    ELSE IF EntradasDe(SubSeq(t, 1, 4)) # {}
                    THEN UltimaEntrada(SubSeq(t, 1, 4))
                    ELSE Outros

C15_Witness ==
    /\ etapa = "classificado"
    /\ DOMAIN metricas_cp.linhas = {PETR4, PETR3, VALE3}
    /\ metricas_cp.linhas[PETR4].setor = Energia
    /\ metricas_cp.linhas[PETR3].setor = Petroleo
    /\ metricas_cp.linhas[VALE3].setor = Outros

DoTape == arquivo_cotahist.presente /\ arquivo_cotahist.linhas # <<>>

Linhas01 ==
    {k \in 1..Len(arquivo_cotahist.linhas) :
        SubSeq(arquivo_cotahist.linhas[k], 1, 2) = <<"0", "1">>}

Numerico(txt) == txt # <<>> /\ \A k \in 1..Len(txt) : txt[k] \in Range(Digitos)

Decodifica(l, r) ==
    \A c \in Range(colunas_spec) :
        LET txt == Strip(SubSeq(l, c[2] + 1, c[3]))
        IN CASE c[1] \in campos_preco \cup {"volume_total"} ->
                  r[c[1]] = IF Numerico(txt)
                            THEN [num |-> ParaInteiro(txt), den |-> 100]
                            ELSE NaN
             [] c[1] \in {"quantidade_negociada", "total_negocios"} ->
                  r[c[1]] = IF Numerico(txt)
                            THEN [num |-> ParaInteiro(txt), den |-> 1]
                            ELSE NaN
             [] c[1] = "data_pregao" -> r[c[1]] = ParaInteiro(txt)
             [] OTHER -> r[c[1]] = txt

\* C16: every '01' line of the tape is one row of df_completo whose fields
\* are the trimmed substrings of the line at the offsets of the layout;
\* the five prices and volume_total are the integer of the field over 100,
\* or NaN when the field is not a number, and nothing is raised for it.
C16_Decodificacao ==
    (DoTape /\ df_completo.presente) =>
        /\ Len(df_completo.linhas) = Cardinality(Linhas01)
        /\ \A k \in Linhas01 :
              \E j \in 1..Len(df_completo.linhas) :
                  Decodifica(arquivo_cotahist.linhas[k], df_completo.linhas[j])

C16_Witness ==
    /\ DoTape
    /\ df_completo.presente
    /\ Len(df_completo.linhas) = 2
    /\ df_completo.linhas[1].ticker = PETR4
    /\ df_completo.linhas[1].preco_ultimo = [num |-> 100, den |-> 100]
    /\ df_completo.linhas[1].volume_total = [num |-> 800, den |-> 100]
    /\ df_completo.linhas[2].ticker = VALE3
    /\ df_completo.linhas[2].preco_ultimo = NaN
    /\ df_completo.linhas[2].preco_medio = NaN
    /\ df_completo.linhas[2].volume_total = NaN

(***************************************************************************)
(* Properties of the life cycle of a run.                                  *)
(***************************************************************************)
Ciclo == <<"construido", "resolvido", "extraido", "salvo">>

\* C21: the steps of a run of executar_otimizacao_completa are a prefix of
\* built, solved, extracted, saved; extraction follows only a solve that
\* ended OPTIMAL or TIME_LIMIT; and the model a run builds is the model of
\* metricas and config alone, with no status and no values of a solve.
C21_OrdemDoCiclo ==
    /\ \E n \in 0..Len(Ciclo) : passos = SubSeq(Ciclo, 1, n)
    /\ extraiu => status \in {"OPTIMAL", "TIME_LIMIT"}
    /\ pc = "construido" =>
          /\ model = Modelo(metricas, config)
          /\ status = "NENHUM"
          /\ ~atrib.presente

\* C25: a call of executar_otimizacao_completa whose solve ended INFEASIBLE
\* or with an unknown status returns None and saves nothing, also when an
\* earlier call on the same instance extracted a solution.
C25_SemSolucaoAntiga ==
    (pc = "fim" /\ status \in {"INFEASIBLE", "OTHER"}) =>
        /\ ret_executar = None
        /\ "salvo" \notin Range(passos)

(***************************************************************************)
(* The objective of the model and the return reported by extrair_solucao.  *)
(***************************************************************************)
Relatorio(v) == ExtrairSolucao(metricas, model, v, "OPTIMAL")

MaiorRetorno(s, t) ==
    s.retorno_total.num * t.retorno_total.den
        > t.retorno_total.num * s.retorno_total.den

\* C22: the portfolio of an OPTIMAL solve maximizes the objective
\* sum(retorno_esperado_i * preco_i * y_i), not the reported retorno_total:
\* a feasible assignment may report a strictly higher retorno_total, and
\* when one does its objective is no larger and it invests strictly less.
C22_ObjetivoNaoEhRetorno ==
    (pc = "otimizado" /\ status = "OPTIMAL" /\ Retornou) =>
        \A v \in Viaveis(model, metricas, config) :
            LET r == Relatorio(v)
            IN r.erro = "" =>
                 /\ r.solucao.funcao_objetivo <= ret_otimizar.funcao_objetivo
                 /\ MaiorRetorno(r.solucao, ret_otimizar) =>
                       r.solucao.investimento_total
                           < ret_otimizar.investimento_total

C22_Witness ==
    /\ pc = "otimizado"
    /\ status = "OPTIMAL"
    /\ Retornou
    /\ \E v \in Viaveis(model, metricas, config) :
          LET r == Relatorio(v)
          IN /\ r.erro = ""
             /\ MaiorRetorno(r.solucao, ret_otimizar)
             /\ r.solucao.funcao_objetivo < ret_otimizar.funcao_objetivo

(***************************************************************************)
(* Properties of calcular_retornos.                                        *)
(***************************************************************************)
DatasDaMatriz == Ordenado(DatasDe(df_acoes.linhas))

TemPreco(t, data) ==
    \E k \in 1..Len(df_acoes.linhas) :
        /\ df_acoes.linhas[k].ticker = t
        /\ df_acoes.linhas[k].data_pregao = data
        /\ df_acoes.linhas[k].preco_ultimo # NaN

\* The return of ticker t on the n-th date row of the matrix is defined.
RetornoDefinido(t, n) ==
    /\ n > 1
    /\ TemPreco(t, DatasDaMatriz[n])
    /\ TemPreco(t, DatasDaMatriz[n - 1])

Posicao(data) == CHOOSE n \in 1..Len(DatasDaMatriz) : DatasDaMatriz[n] = data

\* C23: for the positive prices of trade rows, the log return of a ticker
\* on a date is defined iff the ticker has a price on that date and on the
\* date row just before it in the matrix (no price is filled in); a date
\* row is in df_retornos iff the return of some ticker is defined on it, so
\* rows with only some returns undefined are kept.
C23_SemPreenchimento ==
    df_retornos.presente =>
        /\ \A k \in 1..Len(df_retornos.linhas) :
              \A t \in df_retornos.colunas :
                  (df_retornos.linhas[k][t] # NaN)
                      <=> RetornoDefinido(t, Posicao(df_retornos.indice[k]))
        /\ \A n \in 1..Len(DatasDaMatriz) :
              (\E k \in 1..Len(df_retornos.indice) :
                    df_retornos.indice[k] = DatasDaMatriz[n])
                  <=> \E t \in df_retornos.colunas : RetornoDefinido(t, n)

C23_Witness ==
    /\ df_retornos.presente
    /\ Len(DatasDaMatriz) = 3
    /\ df_retornos.indice = <<DatasDaMatriz[3]>>
    /\ \E t, u \in df_retornos.colunas :
          /\ df_retornos.linhas[1][t] = NaN
          /\ df_retornos.linhas[1][u] # NaN
          /\ TemPreco(t, DatasDaMatriz[1])
          /\ ~TemPreco(t, DatasDaMatriz[2])
          /\ TemPreco(t, DatasDaMatriz[3])

(***************************************************************************)
(* Properties of obter_config.                                             *)
(***************************************************************************)
\* C24: whatever callers do to the dictionaries obter_config returned, the
\* module-level presets keep their values, and every call of obter_config
\* with a name returned the values the first call with that name returned.
C24_PresetsImutaveis ==
    /\ SubSeq(objetos, 1, Len(ModuloConfig)) = ModuloConfig
    /\ \A j, k \in 1..Len(chamadas) :
          chamadas[j].cenario = chamadas[k].cenario =>
              chamadas[j].valor = chamadas[k].valor

C24_Witness ==
    /\ Len(chamadas) >= 2
    /\ chamadas[1].cenario = chamadas[2].cenario
    /\ objetos[chamadas[1].ref].orcamento = 0
    /\ ~ExcluirNegativos(objetos[chamadas[1].ref])
    /\ chamadas[2].valor.orcamento = CENARIO_MODERADO.orcamento
    /\ chamadas[2].valor.cenario_nome = Moderado
    /\ objetos[chamadas[2].ref] = chamadas[2].valor

(***************************************************************************)
(* Properties of the presets in the optimizer.                             *)
(***************************************************************************)
\* C26: under the configuration obter_config returns for each of the three
\* presets, with the flag excluir_retorno_negativo set (conservador) or left
\* out (moderado, agressivo), every asset with retorno_esperado < 0 has
\* quantity 0 and is not selected in every assignment of the solver, and is
\* in no portfolio that otimizar or executar_otimizacao_completa returns.
C26_PresetsExcluemNegativos ==
    /\ \A i \in Negativos(metricas) :
          /\ model.presente => R1("no_negative", i) \in model.restricoes
          /\ atrib.presente => atrib.y[i] = 0 /\ atrib.x[i] = 0
    /\ \A sol \in {ret_otimizar, ret_executar} :
          sol.presente =>
              \A k \in DOMAIN sol.carteira : sol.carteira[k].retorno_esperado >= 0

C26_Witness ==
    /\ config.cenario_nome = Moderado
    /\ "excluir_retorno_negativo" \notin DOMAIN config
    /\ status = "OPTIMAL"
    /\ ret_executar.presente
    /\ metricas["F"].retorno_esperado < 0
    /\ atrib.y["F"] = 0
    /\ ret_executar.num_ativos = config.num_ativos_min

====
